---- MODULE Spec2Model ----
(***************************************************************************)
(* SUMAC supermatrix construction (src/src/supermatrix.py).                *)
(*                                                                         *)
(* Supermatrix.__init__ reads an ordered list of per-locus alignment files *)
(* twice (discovery of the OTUs, then concatenation with gap filling),     *)
(* writes alignments/combined.fasta, and print_data re-reads that file.    *)
(*                                                                         *)
(* Text is modelled as a sequence of atoms: an atom is one character, or   *)
(* one whitespace-free word of a description.  A sequence record is a      *)
(* sequence of one-character atoms.  SeqIO.parse is modelled by its        *)
(* result, a sequence of records [description, seq].                       *)
(***************************************************************************)
EXTENDS Integers, Sequences, FiniteSets, TLC

VARIABLES
    files,          \* alignments.files, each file as SeqIO.parse yields it
    pc,             \* position in the program
    otus,           \* dictionary of Otu objects, keyed by OTU label
    fi,             \* index of the alignment of the second loop
    ri,             \* index of the next record of that alignment
    already_added,  \* OTUs that already got a sequence of this alignment
    loci_length,    \* len(record.seq) of the record read last
    loci_bound,     \* whether the local loci_length has been assigned
    total_length,   \* running sum of loci_length
    out,            \* lines of alignments/combined.fasta
    report,         \* what print_data printed
    err             \* the exception raised, "none" if none

vars == <<files, pc, otus, fi, ri, already_added, loci_length, loci_bound,
          total_length, out, report, err>>

-----------------------------------------------------------------------------
(* Bounds of the model and the vocabulary of the inputs.                   *)

MaxFiles == 2
MaxRecs == 2
MaxWidth == 2

\* the number of wide alignments of the second family of inputs
MaxWideFiles == 2

\* widths around the column width of the output, for line wrapping
WideWidths == {1, 80, 81}

Taxa == {<<"Homo", "sapiens">>, <<"Mus", "musculus">>}

TaxaOrder == <<(<<"Homo", "sapiens">>), (<<"Mus", "musculus">>)>>

Residues == <<"A", "C", "G", "T">>

\* the residue of the i-th record of the input: records differ in content
Residue(i) == Residues[((i - 1) % Len(Residues)) + 1]

\* the accession of the i-th record of the input: GenBank accessions are unique
Accession(i) == "acc" \o ToString(i)

\* record.description of a well-formed record: accession, binomial, free text
Description(acc, taxon) ==
    <<acc, " ", taxon[1], " ", taxon[2], " ", "mRNA">>

\* an aligned sequence: res residues followed by gaps gap characters
Aligned(i, res, gaps) ==
    [k \in 1..(res + gaps) |-> IF k <= res THEN Residue(i) ELSE "-"]

Shapes == {s \in (0..MaxWidth) \X (0..MaxWidth) : s[1] + s[2] <= MaxWidth}

Min(a, b) == IF a < b THEN a ELSE b

SetMin(S) == CHOOSE x \in S : \A y \in S : x <= y

\* the alignments made of n records, the i-th of taxon tx[i] and shape sh[i],
\* record i lying in file fileOf[i] (fileOf is monotone: files are in order)
InputFiles(n, nf, tx, sh, fileOf) ==
    [f \in 1..nf |->
        LET idx == {i \in 1..n : fileOf[i] = f}
        IN  IF idx = {} THEN <<>>
            ELSE [k \in 1..Cardinality(idx) |->
                    LET i == SetMin(idx) + k - 1
                    IN  [description |-> Description(Accession(i), tx[i]),
                         seq |-> Aligned(i, sh[i][1], sh[i][2])]]]

Monotone(n, nf) ==
    {g \in [1..n -> 1..nf] : \A i, j \in 1..n : i <= j => g[i] <= g[j]}

\* one wide alignment: every record of width w, no OTU twice; an OTU is absent,
\* gap-free ("full") or half gaps ("gappy"); i0 numbers the records
WideFile(i0, w, pres) ==
    LET here == SelectSeq(TaxaOrder, LAMBDA t : pres[t] # "absent")
    IN  [k \in 1..Len(here) |->
            [description |-> Description(Accession(i0 + k), here[k]),
             seq |-> IF pres[here[k]] = "full"
                     THEN Aligned(i0 + k, w, 0)
                     ELSE Aligned(i0 + k, (w + 1) \div 2, w - ((w + 1) \div 2))]]

Presences ==
    {p \in [Taxa -> {"absent", "full", "gappy"}] : \E t \in Taxa : p[t] # "absent"}

-----------------------------------------------------------------------------
(* Python and Biopython primitives.                                        *)

\* str.split(sep) for a one-atom separator: the tokens between separators
RECURSIVE SplitFrom(_, _, _)
SplitFrom(s, sep, cur) ==
    IF s = <<>> THEN <<cur>>
    ELSE IF Head(s) = sep THEN <<cur>> \o SplitFrom(Tail(s), sep, <<>>)
    ELSE SplitFrom(Tail(s), sep, Append(cur, Head(s)))

Split(s, sep) == SplitFrom(s, sep, <<>>)

\* descriptors[1] + " " + descriptors[2]
OtuLabel(description) ==
    LET descriptors == Split(description, " ")
    IN  descriptors[2] \o <<" ">> \o descriptors[3]

\* descriptors[0]
AccessionOf(description) == Split(description, " ")[1]

\* Otu.__init__
NewOtu(name) ==
    [name |-> name, sequence |-> <<>>, accessions |-> <<>>,
     sequence_lengths |-> <<>>]

\* Otu.update
update(self, sequence, accession, sequence_length) ==
    [self EXCEPT !.sequence = @ \o sequence,
                 !.accessions = Append(@, accession),
                 !.sequence_lengths = Append(@, sequence_length)]

\* faulty variant of make_gaps: one '-' too few
make_gaps_short(length) == [k \in 1..(length - 1) |-> "-"]

\* Supermatrix.make_gaps: a string of length '-'
make_gaps(length) == [k \in 1..length |-> "-"]

\* faulty variant of get_ungapped_length: the gaps are counted too
get_ungapped_length_all(sequence) == Len(sequence)

\* Supermatrix.get_ungapped_length: the number of letters that are not '-'
get_ungapped_length(sequence) ==
    Cardinality({k \in 1..Len(sequence) : sequence[k] # "-"})

\* the labels of the records of one alignment, in file order
RecordLabels(file) == [k \in 1..Len(file) |-> OtuLabel(file[k].description)]

\* first loop of __init__: one Otu per distinct label of any record
DiscoveredOtus(fs) ==
    LET labels == UNION {{RecordLabels(fs[f])[k] : k \in 1..Len(fs[f])} :
                            f \in 1..Len(fs)}
    IN  [o \in labels |-> NewOtu(o)]

InSeq(x, s) == \E k \in 1..Len(s) : s[k] = x

-----------------------------------------------------------------------------
(* Writing and re-reading alignments/combined.fasta.                       *)

\* the column width of the written sequence lines
LineWidth == 80

\* faulty variant of the wrapping: slices of 79 letters every 80
RECURSIVE WrapFrom_short(_, _)
WrapFrom_short(sequence, i) ==
    IF i < Len(sequence)
    THEN <<SubSeq(sequence, i + 1, Min(i + LineWidth - 1, Len(sequence)))>>
         \o WrapFrom_short(sequence, i + LineWidth)
    ELSE <<>>

\* sequence[i:i+80] for i = 0, 80, 160, ... while i < len(sequence)
RECURSIVE WrapFrom(_, _)
WrapFrom(sequence, i) ==
    IF i < Len(sequence)
    THEN <<SubSeq(sequence, i + 1, Min(i + LineWidth, Len(sequence)))>>
         \o WrapFrom(sequence, i + LineWidth)
    ELSE <<>>

\* the lines written for one OTU: "> " + otu, then the wrapped sequence
OtuLines(otu, sequence) == <<(<<">", " ">> \o otu)>> \o WrapFrom(sequence, 0)

\* the lines written for the OTUs in the iteration order of the dictionary
RECURSIVE WrittenLines(_, _)
WrittenLines(order, d) ==
    IF order = <<>> THEN <<>>
    ELSE OtuLines(Head(order), d[Head(order)].sequence)
         \o WrittenLines(Tail(order), d)

\* the iteration orders a dictionary with these keys can have
Orders(S) ==
    {s \in [1..Cardinality(S) -> S] :
        \A i, j \in 1..Cardinality(S) : i # j => s[i] # s[j]}

IsHeader(line) == line # <<>> /\ Head(line) = ">"

\* SeqIO.parse(file, "fasta"): a ">" line opens a record whose description is
\* the rest of the line; the lines up to the next ">" are joined as its seq
RECURSIVE FastaParseFrom(_, _, _)
FastaParseFrom(lines, open, cur) ==
    IF lines = <<>> THEN (IF open THEN <<cur>> ELSE <<>>)
    ELSE IF IsHeader(Head(lines))
         THEN (IF open THEN <<cur>> ELSE <<>>)
              \o FastaParseFrom(Tail(lines), TRUE,
                    [description |-> Tail(Head(lines)), seq |-> <<>>])
         ELSE FastaParseFrom(Tail(lines), open,
                    IF open THEN [cur EXCEPT !.seq = @ \o Head(lines)] ELSE cur)

FastaParse(lines) ==
    FastaParseFrom(lines, FALSE, [description |-> <<>>, seq |-> <<>>])

\* the number of '-' letters of a sequence, as print_data counts them
CountGaps(sequence) ==
    Cardinality({k \in 1..Len(sequence) : sequence[k] = "-"})

\* faulty variant of the rounding: the fraction is cut after two decimals
Round2_trunc(num, den, up) == (100 * num) \div den

\* round(num / float(den), 2) in hundredths.  A value exactly halfway between
\* two hundredths goes to either neighbour: Python 2 rounds it away from zero,
\* Python 3 to the even neighbour of the nearest binary float.
Round2(num, den, up) ==
    LET q == (100 * num) \div den
        r == (100 * num) % den
    IN  IF 2 * r < den THEN q
        ELSE IF 2 * r > den THEN q + 1
        ELSE IF up THEN q + 1 ELSE q

RECURSIVE SumSeq(_)
SumSeq(s) == IF s = <<>> THEN 0 ELSE Head(s) + SumSeq(Tail(s))

NoReport ==
    [per_otu |-> <<>>, num_records |-> 0, matrix_length |-> 0, total_gaps |-> 0]

\* what print_data prints for these records: one line per record, the count of
\* records, the length of the last record, the overall gap fraction
StatsOf(records, ups) ==
    LET n == Len(records)
        gaps == [k \in 1..n |-> CountGaps(records[k].seq)]
        matrix_length == Len(records[n].seq)
    IN  [per_otu |-> [k \in 1..n |->
                        [otu |-> records[k].description,
                         gaps |-> Round2(gaps[k], Len(records[k].seq), ups[k])]],
         num_records |-> n,
         matrix_length |-> matrix_length,
         total_gaps |-> Round2(SumSeq(gaps), matrix_length * n, ups[n + 1])]

-----------------------------------------------------------------------------
(* The program.                                                            *)

Start(fs) ==
    /\ files = fs
    /\ pc = "discover"
    /\ otus = <<>>
    /\ fi = 1
    /\ ri = 1
    /\ already_added = <<>>
    /\ loci_length = 0
    /\ loci_bound = FALSE
    /\ total_length = 0
    /\ out = <<>>
    /\ report = NoReport
    /\ err = "none"

\* any list of at most MaxFiles alignments holding at most MaxRecs records of
\* width at most MaxWidth; a file may be empty, hold an OTU twice, or hold
\* records of different widths
Init ==
    \E n \in 0..MaxRecs, nf \in 0..MaxFiles :
        \E tx \in [1..n -> Taxa], sh \in [1..n -> Shapes], g \in Monotone(n, nf) :
            Start(InputFiles(n, nf, tx, sh, g))

\* at most MaxWideFiles alignments as the aligner writes them: no file empty,
\* one width per file, no OTU twice in a file; widths around LineWidth
InitWide ==
    \E nf \in 1..MaxWideFiles :
        \E ws \in [1..nf -> WideWidths], ps \in [1..nf -> Presences] :
            Start([f \in 1..nf |-> WideFile(Len(TaxaOrder) * (f - 1), ws[f], ps[f])])

\* __init__, first loop: discover the OTUs of all alignments
Discover ==
    /\ pc = "discover"
    /\ otus' = DiscoveredOtus(files)
    /\ pc' = "merge"
    /\ UNCHANGED <<files, fi, ri, already_added, loci_length, loci_bound,
                   total_length, out, report, err>>

\* the gap-filled dictionary: an OTU whose sequence is shorter than total gets
\* a gap segment of width length
GapFilled(d, total, length) ==
    [o \in DOMAIN d |->
        IF Len(d[o].sequence) < total
        THEN update(d[o], make_gaps(length), <<"-">>, 0)
        ELSE d[o]]

\* faulty variant of the merge of one record: no already_added guard
Merged_nodedup(d, record, added) ==
    [d EXCEPT ![OtuLabel(record.description)] =
        update(@, record.seq, AccessionOf(record.description),
               get_ungapped_length(record.seq))]

\* the dictionary after one record: the first record of an OTU in this
\* alignment updates the OTU, a later one does not
Merged(d, record, added) ==
    LET otu == OtuLabel(record.description)
    IN  IF ~InSeq(otu, added)
        THEN [d EXCEPT ![otu] = update(@, record.seq,
                                       AccessionOf(record.description),
                                       get_ungapped_length(record.seq))]
        ELSE d

\* faulty variant of loci_length: assigned for an added record only
LociLength_kept(old, record, kept) == IF kept THEN Len(record.seq) ELSE old

\* loci_length after a record: len(record.seq), whether or not the record
\* was added
LociLength(old, record, kept) == Len(record.seq)

\* __init__, second loop, one record of the current alignment
MergeRecord ==
    /\ pc = "merge"
    /\ fi <= Len(files)
    /\ ri <= Len(files[fi])
    /\ LET record == files[fi][ri]
           otu == OtuLabel(record.description)
       IN  /\ otus' = Merged(otus, record, already_added)
           /\ already_added' = IF ~InSeq(otu, already_added)
                               THEN Append(already_added, otu)
                               ELSE already_added
           /\ loci_length' = LociLength(loci_length, record,
                                        ~InSeq(otu, already_added))
           /\ loci_bound' = TRUE
    /\ ri' = ri + 1
    /\ UNCHANGED <<files, pc, fi, total_length, out, report, err>>

\* __init__, second loop, after the records of the current alignment: add the
\* width to total_length and fill the gaps; loci_length is unbound when no
\* record has been read yet
EndLocus ==
    /\ pc = "merge"
    /\ fi <= Len(files)
    /\ ri > Len(files[fi])
    /\ IF ~loci_bound
       THEN /\ pc' = "error"
            /\ err' = "UnboundLocalError: loci_length"
            /\ UNCHANGED <<otus, fi, ri, already_added, total_length>>
       ELSE /\ total_length' = total_length + loci_length
            /\ otus' = GapFilled(otus, total_length', loci_length)
            /\ fi' = fi + 1
            /\ ri' = 1
            /\ already_added' = <<>>
            /\ UNCHANGED <<pc, err>>
    /\ UNCHANGED <<files, loci_length, loci_bound, out, report>>

\* __init__, write the FASTA file
WriteFasta ==
    /\ pc = "merge"
    /\ fi > Len(files)
    /\ \E order \in Orders(DOMAIN otus) : out' = WrittenLines(order, otus)
    /\ pc' = "built"
    /\ UNCHANGED <<files, otus, fi, ri, already_added, loci_length, loci_bound,
                   total_length, report, err>>

\* print_data: re-read the written file and print the statistics
print_data ==
    /\ pc = "built"
    /\ LET records == FastaParse(out)
       IN  IF \E k \in 1..Len(records) : Len(records[k].seq) = 0
           THEN /\ pc' = "error"
                /\ err' = "ZeroDivisionError"
                /\ UNCHANGED report
           ELSE IF records = <<>>
           THEN /\ pc' = "error"
                /\ err' = "UnboundLocalError: matrix_length"
                /\ UNCHANGED report
           ELSE /\ \E ups \in [1..(Len(records) + 1) -> BOOLEAN] :
                        report' = StatsOf(records, ups)
                /\ pc' = "reported"
                /\ UNCHANGED err
    /\ UNCHANGED <<files, otus, fi, ri, already_added, loci_length, loci_bound,
                   total_length, out>>

Next == Discover \/ MergeRecord \/ EndLocus \/ WriteFasta \/ print_data

Spec == Init /\ [][Next]_vars

SpecWide == InitWide /\ [][Next]_vars

-----------------------------------------------------------------------------
(* The reference the claims are stated against, computed from the input    *)
(* alone.                                                                  *)

\* a well-formed description is <<accession, " ", genus, " ", species, ...>>
RefLabel(record) == <<record.description[3], " ", record.description[5]>>

RefAccession(record) == <<record.description[1]>>

NonGaps(sequence) == Len(SelectSeq(sequence, LAMBDA c : c # "-"))

Gaps(sequence) == Len(SelectSeq(sequence, LAMBDA c : c = "-"))

AllGaps(sequence) == \A k \in 1..Len(sequence) : sequence[k] = "-"

\* the aligned width of a locus, from its first record
Width(file) == Len(file[1].seq)

NonEmptyFiles(fs) == \A f \in 1..Len(fs) : fs[f] # <<>>

\* all records of a file share one aligned width
Uniform(fs) ==
    \A f \in 1..Len(fs) : \A k, l \in 1..Len(fs[f]) :
        Len(fs[f][k].seq) = Len(fs[f][l].seq)

Inconsistent(fs) == ~Uniform(fs)

PositiveWidths(fs) ==
    \A f \in 1..Len(fs) : \A k \in 1..Len(fs[f]) : Len(fs[f][k].seq) > 0

\* the sum of the widths of the first k loci, an empty file counting 0
RECURSIVE SumWidths(_, _)
SumWidths(fs, k) ==
    IF k = 0 THEN 0
    ELSE SumWidths(fs, k - 1) + (IF fs[k] = <<>> THEN 0 ELSE Width(fs[k]))

\* the sum of the lengths of the last records of the first k loci
RECURSIVE SumLast(_, _)
SumLast(fs, k) ==
    IF k = 0 THEN 0
    ELSE SumLast(fs, k - 1) + Len(fs[k][Len(fs[k])].seq)

HasRecord(file, o) == \E k \in 1..Len(file) : RefLabel(file[k]) = o

\* the kept record of OTU o in a file: the first one in file order
KeptRecord(file, o) ==
    file[SetMin({k \in 1..Len(file) : RefLabel(file[k]) = o})]

\* record k of the file is a later record of an OTU the file already held
IsDuplicate(file, k) == \E j \in 1..(k - 1) : RefLabel(file[j]) = RefLabel(file[k])

\* the loci whose merge is complete; the state lies between two loci, or
\* after the last one, exactly when ri = 1
Processed == fi - 1

AtLocusBoundary == pc # "discover" /\ ri = 1

BuildFailed == pc = "error" /\ err = "UnboundLocalError: loci_length"

BuildDone == pc \in {"built", "reported"} \/ (pc = "error" /\ ~BuildFailed)

Rectangular ==
    \A o1, o2 \in DOMAIN otus : Len(otus[o1].sequence) = Len(otus[o2].sequence)

-----------------------------------------------------------------------------
(* The claims.                                                             *)

\* C1: for input whose files are all non-empty and of one aligned width each,
\* after every locus processed (and so on completion) every OTU's sequence has
\* the same length, the sum of the widths of the loci processed so far, which
\* is total_length.
C1_LengthInvariant ==
    (NonEmptyFiles(files) /\ Uniform(files) /\ AtLocusBoundary) =>
        /\ total_length = SumWidths(files, Processed)
        /\ \A o \in DOMAIN otus :
               Len(otus[o].sequence) = SumWidths(files, Processed)

\* C1 witness: a completed build of two uniform loci of positive width, with
\* two OTUs of which one was gap-filled at a locus.
C1_Witness ==
    /\ pc = "built"
    /\ NonEmptyFiles(files) /\ Uniform(files) /\ PositiveWidths(files)
    /\ Len(files) = 2
    /\ Cardinality(DOMAIN otus) = 2
    /\ \E o \in DOMAIN otus : InSeq(<<"-">>, otus[o].accessions)

\* C2: for input whose files are of one aligned width each, after k loci have
\* been merged every OTU has exactly k accessions and k sequence lengths (one
\* update per locus, a real sequence or a gap segment).
C2_Parallelism ==
    (Uniform(files) /\ AtLocusBoundary) =>
        \A o \in DOMAIN otus :
            /\ Len(otus[o].accessions) = Processed
            /\ Len(otus[o].sequence_lengths) = Processed

\* C2 holds when no locus has width 0: an OTU absent from a locus of width 0
\* is not shorter than total_length and gets no update for that locus.
C2_PositiveWidths ==
    (Uniform(files) /\ PositiveWidths(files) /\ AtLocusBoundary) =>
        \A o \in DOMAIN otus :
            /\ Len(otus[o].accessions) = Processed
            /\ Len(otus[o].sequence_lengths) = Processed

\* C3: for every OTU and every index i, sequence_lengths[i] = 0 if and only
\* if accessions[i] = "-".
C3_ZeroIffPlaceholder ==
    \A o \in DOMAIN otus : \A i \in 1..Len(otus[o].accessions) :
        (otus[o].sequence_lengths[i] = 0) <=> (otus[o].accessions[i] = <<"-">>)

\* the record of the input that carries this accession
RecordOfAccession(a) ==
    LET at == CHOOSE fk \in UNION {{<<f, k>> : k \in 1..Len(files[f])} :
                                        f \in 1..Len(files)} :
                  RefAccession(files[fk[1]][fk[2]]) = a
    IN  files[at[1]][at[2]]

\* C3 as amended: accessions[i] = "-" implies sequence_lengths[i] = 0; an
\* entry with a real accession records the number of non-gap letters of the
\* record it came from, which is 0 exactly when that record holds no residue,
\* so a zero length does not imply the placeholder.
C3_PlaceholderImpliesZero ==
    \A o \in DOMAIN otus : \A i \in 1..Len(otus[o].accessions) :
        IF otus[o].accessions[i] = <<"-">>
        THEN otus[o].sequence_lengths[i] = 0
        ELSE LET r == RecordOfAccession(otus[o].accessions[i])
             IN  /\ otus[o].sequence_lengths[i] = NonGaps(r.seq)
                 /\ (otus[o].sequence_lengths[i] = 0) <=> AllGaps(r.seq)

\* C3 witness: an OTU holds a gap-filled entry and another OTU an entry of a
\* record made of gaps only, with its real accession and length 0.
C3_Witness ==
    /\ pc = "built"
    /\ \E o \in DOMAIN otus : \E i \in 1..Len(otus[o].accessions) :
           otus[o].accessions[i] = <<"-">> /\ otus[o].sequence_lengths[i] = 0
    /\ \E o \in DOMAIN otus : \E i \in 1..Len(otus[o].accessions) :
           /\ otus[o].accessions[i] # <<"-">>
           /\ otus[o].sequence_lengths[i] = 0
           /\ Len(RecordOfAccession(otus[o].accessions[i]).seq) > 0

\* the segment of a sequence at the position of locus L
Segment(sequence, L) ==
    SubSeq(sequence, SumWidths(files, L - 1) + 1, SumWidths(files, L))

\* the merge result of C4 for the inputs fs allows
MergeResultHolds ==
    \A o \in DOMAIN otus :
        /\ Len(otus[o].sequence) = SumWidths(files, Len(files))
        /\ \A L \in 1..Len(files) :
               HasRecord(files[L], o) =>
                   LET r == KeptRecord(files[L], o)
                   IN  /\ Len(otus[o].accessions) >= L
                       /\ Len(otus[o].sequence_lengths) >= L
                       /\ otus[o].accessions[L] = RefAccession(r)
                       /\ otus[o].sequence_lengths[L] = NonGaps(r.seq)
                       /\ Segment(otus[o].sequence, L) = r.seq

\* C4: after a build, for every OTU t and every locus L in which t has a
\* record, the segment of t's sequence at the position of L is the aligned
\* sequence of t's kept record, accessions[L] its first token and
\* sequence_lengths[L] its number of non-gap letters; the sequence is the
\* concatenation of the per-locus segments.
C4_MergeResult ==
    (NonEmptyFiles(files) /\ Uniform(files) /\ BuildDone) => MergeResultHolds

\* C4 holds when no locus has width 0.
C4_PositiveWidths ==
    (NonEmptyFiles(files) /\ Uniform(files) /\ PositiveWidths(files)
        /\ BuildDone) => MergeResultHolds

\* the gap fill of C5 for the loci processed so far
GapFillHolds ==
    \A o \in DOMAIN otus : \A L \in 1..Processed :
        IF HasRecord(files[L], o)
        THEN Len(otus[o].accessions) >= L => otus[o].accessions[L] # <<"-">>
        ELSE /\ Len(otus[o].accessions) >= L
             /\ Len(otus[o].sequence_lengths) >= L
             /\ otus[o].accessions[L] = <<"-">>
             /\ otus[o].sequence_lengths[L] = 0
             /\ Segment(otus[o].sequence, L) = [k \in 1..Width(files[L]) |-> "-"]

\* C5: after the merge of locus L, every OTU without a record in L holds at
\* the position of L exactly width(L) gap characters, the accession "-" and
\* the length 0; an OTU with a record in L holds no gap segment for L.
C5_GapFill ==
    (NonEmptyFiles(files) /\ Uniform(files) /\ AtLocusBoundary) => GapFillHolds

\* C5 holds when no locus has width 0.
C5_PositiveWidths ==
    (NonEmptyFiles(files) /\ Uniform(files) /\ PositiveWidths(files)
        /\ AtLocusBoundary) => GapFillHolds

\* a step of the second loop that reads record ri of alignment fi
IsMergeStep ==
    pc = "merge" /\ fi <= Len(files) /\ ri <= Len(files[fi]) /\ ri' = ri + 1

\* a later record of an OTU leaves every Otu as it is; the first record of an
\* OTU in an alignment is appended, whatever earlier alignments held
C6_Step ==
    IsMergeStep =>
        LET record == files[fi][ri]
            o == RefLabel(record)
        IN  IF IsDuplicate(files[fi], ri)
            THEN otus' = otus
            ELSE /\ otus'[o].sequence = otus[o].sequence \o record.seq
                 /\ otus'[o].accessions =
                        Append(otus[o].accessions, RefAccession(record))

\* nothing of a dropped record is in any Otu or, once written, in the output
C6_Dropped ==
    \A f \in 1..Len(files) : \A k \in 1..Len(files[f]) :
        IsDuplicate(files[f], k) =>
            /\ \A o \in DOMAIN otus :
                   ~InSeq(RefAccession(files[f][k]), otus[o].accessions)
            /\ \A c \in {files[f][k].seq[x] : x \in 1..Len(files[f][k].seq)} \ {"-"} :
                   /\ \A o \in DOMAIN otus : ~InSeq(c, otus[o].sequence)
                   /\ \A j \in 1..Len(out) : ~InSeq(c, out[j])

\* C6: of the records of one alignment that carry the same OTU label only the
\* first is merged; a later one leaves sequence, accessions and
\* sequence_lengths of every OTU unchanged and nothing of it reaches the
\* output; the guard is per alignment.
C6_Dedup == [][C6_Step]_vars /\ []C6_Dropped

\* C6 witness: a completed build whose input holds a later record, with
\* residues, of an OTU already added from the same alignment.
C6_Witness ==
    /\ pc = "built"
    /\ \E f \in 1..Len(files) : \E k \in 1..Len(files[f]) :
           IsDuplicate(files[f], k) /\ NonGaps(files[f][k].seq) > 0

\* C7: the written file holds one record per discovered OTU, headed "> " +
\* label; every sequence line has at most 80 letters and every one but the
\* last of a record exactly 80; re-reading the file and joining the lines of
\* each record gives the merged sequence of its OTU.
C7_RoundTrip ==
    BuildDone =>
        LET hdr == {j \in 1..Len(out) : out[j] # <<>> /\ out[j][1] = ">"}
            recs == FastaParse(out)
        IN  /\ Cardinality(hdr) = Cardinality(DOMAIN otus)
            /\ {out[j] : j \in hdr} = {<<">", " ">> \o o : o \in DOMAIN otus}
            /\ \A j \in (1..Len(out)) \ hdr :
                   /\ Len(out[j]) >= 1
                   /\ Len(out[j]) <= LineWidth
                   /\ (j < Len(out) /\ (j + 1) \notin hdr) => Len(out[j]) = LineWidth
            /\ Len(recs) = Cardinality(DOMAIN otus)
            /\ \A o \in DOMAIN otus : \E k \in 1..Len(recs) :
                   /\ recs[k].description = <<" ">> \o o
                   /\ recs[k].seq = otus[o].sequence
                   /\ (NonEmptyFiles(files) /\ Uniform(files)) =>
                          Len(recs[k].seq) = total_length

\* C7 witness: a written matrix longer than two lines whose last line is
\* shorter than the others.
C7_Witness ==
    /\ pc = "built"
    /\ Cardinality(DOMAIN otus) = 2
    /\ total_length > 2 * LineWidth
    /\ total_length % LineWidth # 0

\* C8: when a file of the input is empty, the build raises no error and after
\* every locus all sequences have the length of the widths summed, the empty
\* file counting 0.
C8_EmptyLocus ==
    ((\E f \in 1..Len(files) : files[f] = <<>>) /\ Uniform(files)) =>
        /\ ~BuildFailed
        /\ AtLocusBoundary =>
               \A o \in DOMAIN otus :
                   Len(otus[o].sequence) = SumWidths(files, Processed)

\* the entry of the report for OTU o
ReportOf(o) ==
    LET k == CHOOSE k \in 1..Len(report.per_otu) :
                 report.per_otu[k].otu = <<" ">> \o o
    IN  report.per_otu[k]

TotalGaps ==
    LET order == CHOOSE s \in Orders(DOMAIN otus) : TRUE
    IN  SumSeq([k \in 1..Len(order) |-> Gaps(otus[order[k]].sequence)])

ReportCounts ==
    /\ report.num_records = Cardinality(DOMAIN otus)
    /\ Len(report.per_otu) = Cardinality(DOMAIN otus)
    /\ \A o \in DOMAIN otus :
           \E k \in 1..Len(report.per_otu) : report.per_otu[k].otu = <<" ">> \o o
    /\ report.matrix_length = SumWidths(files, Len(files))

Abs(x) == IF x < 0 THEN -x ELSE x

\* C9: print_data reports the number of OTUs, the matrix length as the sum of
\* the locus widths, for each OTU the fraction gaps / length and overall the
\* fraction gaps / (matrix length * number of OTUs).  Fractions are in
\* hundredths.
C9_ExactFractions ==
    (pc = "reported" /\ NonEmptyFiles(files) /\ Uniform(files)) =>
        /\ ReportCounts
        /\ \A o \in DOMAIN otus :
               ReportOf(o).gaps * Len(otus[o].sequence)
                   = 100 * Gaps(otus[o].sequence)
        /\ report.total_gaps * (report.matrix_length * report.num_records)
               = 100 * TotalGaps

\* C9 as amended: the fractions are reported rounded to two decimals, that is
\* within half a hundredth of the fraction.
C9_RoundedFractions ==
    (pc = "reported" /\ NonEmptyFiles(files) /\ Uniform(files)) =>
        /\ ReportCounts
        /\ \A o \in DOMAIN otus :
               2 * Abs(ReportOf(o).gaps * Len(otus[o].sequence)
                       - 100 * Gaps(otus[o].sequence))
                   <= Len(otus[o].sequence)
        /\ 2 * Abs(report.total_gaps * (report.matrix_length * report.num_records)
                   - 100 * TotalGaps)
               <= report.matrix_length * report.num_records
        /\ \A o \in DOMAIN otus :
               (/\ Len(files) = 2
                /\ Width(files[1]) = Width(files[2])
                /\ Gaps(otus[o].sequence) = Width(files[1])) =>
                   ReportOf(o).gaps = 50

\* C9 witness: a report on two loci of equal width, with an OTU gap-free at
\* one and absent from the other, reported at 0.5, and another OTU whose
\* fraction is not a whole number of hundredths.
C9_Witness ==
    /\ pc = "reported"
    /\ Len(files) = 2
    /\ Width(files[1]) = Width(files[2])
    /\ \E o \in DOMAIN otus :
           /\ otus[o].accessions[1] = <<"-">>
           /\ otus[o].sequence_lengths[2] = Width(files[2])
           /\ ReportOf(o).gaps = 50
    /\ \E o \in DOMAIN otus :
           (100 * Gaps(otus[o].sequence)) % Len(otus[o].sequence) # 0

\* C10: whenever a file holds records of different lengths, the build raises
\* no error and the matrix it completes with is not rectangular (stated for
\* input without an empty file, where the build does complete).
C10_NonRectangular ==
    (Inconsistent(files) /\ NonEmptyFiles(files)) =>
        /\ ~BuildFailed
        /\ BuildDone => ~Rectangular

\* C10 as amended: records of different lengths are not detected: the width
\* of a locus is the length of its last record, whatever the others are, and
\* the build fails only where it fails for consistent input, at an empty file
\* before any record was read; the matrix may or may not be rectangular.
C10_NotDetected ==
    Inconsistent(files) =>
        /\ BuildFailed => (files[1] = <<>>)
        /\ (NonEmptyFiles(files) /\ AtLocusBoundary) =>
               total_length = SumLast(files, Processed)

\* C10 witness: a completed build of inconsistent input whose matrix is not
\* rectangular.
C10_Witness ==
    /\ pc = "built"
    /\ Inconsistent(files)
    /\ ~Rectangular

====
